---- MODULE Spec2Model ----
(***************************************************************************)
(* Purchase bot: billing-cycle advisory engine and pending-confirmation   *)
(* workflow (Telegram front end, Google Sheets persistence).              *)
(*                                                                         *)
(* A Date is a record [day, ms]: day counts the calendar days since       *)
(* 1 January 2026 and ms is the local time of day in milliseconds.  A     *)
(* Date.now() timestamp is the same pair; differences of timestamps are   *)
(* taken in milliseconds.  The local time zone has no daylight saving.    *)
(***************************************************************************)
EXTENDS Integers, Sequences, FiniteSets, Bags, TLC

(***************************************************************************)
(* Configuration                                                           *)
(***************************************************************************)

\* Object.keys(CARD_CYCLE): the catalog in insertion order.
CardKeys == <<"BBVA", "RAPPICARD", "HSBC", "BANAMEX", "NU", "MERCADOPAGO">>

CARD_CYCLE ==
  [ BBVA        |-> [cutDay |-> 24, dueDay |-> 13, dueOffset |-> 1],
    RAPPICARD   |-> [cutDay |-> 6,  dueDay |-> 26, dueOffset |-> 0],
    HSBC        |-> [cutDay |-> 16, dueDay |-> 5,  dueOffset |-> 1],
    BANAMEX     |-> [cutDay |-> 6,  dueDay |-> 26, dueOffset |-> 0],
    NU          |-> [cutDay |-> 7,  dueDay |-> 19, dueOffset |-> 0],
    MERCADOPAGO |-> [cutDay |-> 13, dueDay |-> 23, dueOffset |-> 0] ]

SKIP_CUT_VALIDATION == {"CAPITAL", "PRESTAMO"}

IMPROVEMENT_THRESHOLD_DAYS == 5

PENDING_TTL_MS == 3 * 60 * 1000

MsPerDay == 1000 * 60 * 60 * 24

(***************************************************************************)
(* Calendar: the Date constructor and getters of the runtime               *)
(***************************************************************************)

\* const x = e; followed by the code F that uses x: e is evaluated once.
Bind(e, F(_)) == CHOOSE r \in { F(x) : x \in {e} } : TRUE

Years == 2026 .. 2029

IsLeap(y) == (y % 4 = 0 /\ y % 100 # 0) \/ y % 400 = 0

\* Days from 1 January 2026 to 1 January of year y (2026 to 2099): 365 a year
\* plus one for each leap year passed.
YearStart(y) == 365 * (y - 2026) + (((y - 1) \div 4) - (2025 \div 4))

\* Days of a common year before month m (a month index 0..11, as in the runtime).
CumDays == <<0, 31, 59, 90, 120, 151, 181, 212, 243, 273, 304, 334>>

DaysBeforeMonth(y, m) == CumDays[m + 1] + (IF m >= 2 /\ IsLeap(y) THEN 1 ELSE 0)

\* new Date(y, m, d) at local midnight: a month index past 11 carries into the
\* year, a day past the month's end carries into the following month(s).
MakeDate(y, m, d) ==
  Bind(y + (m \div 12), LAMBDA ny :
    [day |-> YearStart(ny) + DaysBeforeMonth(ny, m % 12) + (d - 1), ms |-> 0])

\* getFullYear(), getMonth() and getDate() of a Date, as one record.
Civil(date) ==
  Bind(date.day, LAMBDA dd :
  Bind(CHOOSE yy \in Years : YearStart(yy) <= dd /\ dd < YearStart(yy + 1), LAMBDA y :
  Bind(dd - YearStart(y), LAMBDA n :
  Bind(CHOOSE mm \in 0 .. 11 :
         DaysBeforeMonth(y, mm) <= n /\ (mm = 11 \/ n < DaysBeforeMonth(y, mm + 1)),
       LAMBDA m :
    [year |-> y, month |-> m, date |-> n - DaysBeforeMonth(y, m) + 1]))))

\* date1 - date2 in milliseconds, and the comparison of two Dates.
DateDiffMs(a, b) == (a.day - b.day) * MsPerDay + (a.ms - b.ms)

DateLeq(a, b) == a.day < b.day \/ (a.day = b.day /\ a.ms <= b.ms)

\* Math.ceil(n / d) for d > 0.
CeilDiv(n, d) == IF n % d = 0 THEN n \div d ELSE (n \div d) + 1

\* Math.ceil((a - b) / (1000 * 60 * 60 * 24)): the whole days of the difference
\* are taken first, so that the milliseconds stay within the integers.
CeilDays(a, b) == (a.day - b.day) + CeilDiv(a.ms - b.ms, MsPerDay)

Max(a, b) == IF a >= b THEN a ELSE b

(***************************************************************************)
(* Helpers                                                                 *)
(***************************************************************************)

\* formatDateDMY: day/month/year with the month counted from 1.
formatDateDMY(date) == Bind(Civil(date), LAMBDA c : <<c.date, c.month + 1, c.year>>)

\* normalizeToDay without setHours(0, 0, 0, 0).
normalizeToDayKeepsTime(date) == date

normalizeToDay(date) == [date EXCEPT !.ms = 0]

\* setMonth(getMonth() + months) keeps the day of the month and carries an
\* overflowing day into the next month; then the time of day is cleared.
addMonths(date, months) ==
  Bind(Civil(date), LAMBDA c : MakeDate(c.year, c.month + months, c.date))

buildDateYMDay(baseDate, day) ==
  Bind(Civil(baseDate), LAMBDA c : MakeDate(c.year, c.month, day))

\* getNextCutDate that always answers with this month's cut.
getNextCutDateThisMonth(today, cutDay) == buildDateYMDay(today, cutDay)

getNextCutDate(today, cutDay) ==
  Bind(buildDateYMDay(today, cutDay), LAMBDA cutThisMonth :
    IF DateLeq(today, cutThisMonth) THEN cutThisMonth
    ELSE buildDateYMDay(addMonths(today, 1), cutDay))

NotConfigured == [none |-> TRUE]

\* windowOf without the step that moves a due date not after the cut to the
\* following month.
windowOfUnguarded(cfg, today) ==
  Bind(normalizeToDay(today), LAMBDA t :
  Bind(getNextCutDate(t, cfg.cutDay), LAMBDA cutDate :
  Bind(buildDateYMDay(addMonths(cutDate, cfg.dueOffset), cfg.dueDay), LAMBDA dueDate :
    [ cutDate   |-> cutDate,
      dueDate   |-> dueDate,
      daysToPay |-> Max(0, CeilDays(dueDate, t)),
      cfg       |-> cfg ])))

\* The body of getPaymentWindow once the card's cycle cfg is found.
windowOf(cfg, today) ==
  Bind(normalizeToDay(today), LAMBDA t :
  Bind(getNextCutDate(t, cfg.cutDay), LAMBDA cutDate :
  Bind(addMonths(cutDate, cfg.dueOffset), LAMBDA dueBase :
  Bind(buildDateYMDay(dueBase, cfg.dueDay), LAMBDA due0 :
  Bind(IF DateLeq(due0, cutDate)
       THEN buildDateYMDay(addMonths(dueBase, 1), cfg.dueDay)
       ELSE due0, LAMBDA dueDate :
    [ cutDate   |-> cutDate,
      dueDate   |-> dueDate,
      daysToPay |-> Max(0, CeilDays(dueDate, t)),
      cfg       |-> cfg ])))))

\* getPaymentWindow falling back to a default cycle for an unknown card.
getPaymentWindowDefaultCycle(bank, today) ==
  windowOf(IF bank \in DOMAIN CARD_CYCLE THEN CARD_CYCLE[bank]
           ELSE [cutDay |-> 1, dueDay |-> 20, dueOffset |-> 0], today)

getPaymentWindow(bank, today) ==
  IF bank \notin DOMAIN CARD_CYCLE THEN NotConfigured
  ELSE windowOf(CARD_CYCLE[bank], today)

\* Array.prototype.sort with comparator b.daysToPay - a.daysToPay: a stable
\* sort, descending; modelled as insertion of each element after every element
\* that is not smaller.
\* Insertion before the elements that are equal: an unstable sort.
RECURSIVE InsertDescBeforeEquals(_, _)
InsertDescBeforeEquals(sorted, x) ==
  IF sorted = <<>> THEN <<x>>
  ELSE IF Head(sorted).daysToPay > x.daysToPay
       THEN <<Head(sorted)>> \o InsertDescBeforeEquals(Tail(sorted), x)
       ELSE <<x>> \o sorted

RECURSIVE InsertDesc(_, _)
InsertDesc(sorted, x) ==
  IF sorted = <<>> THEN <<x>>
  ELSE IF Head(sorted).daysToPay >= x.daysToPay
       THEN <<Head(sorted)>> \o InsertDesc(Tail(sorted), x)
       ELSE <<x>> \o sorted

RECURSIVE SortDesc(_)
SortDesc(s) ==
  IF s = <<>> THEN <<>>
  ELSE InsertDesc(SortDesc(SubSeq(s, 1, Len(s) - 1)), s[Len(s)])

\* { bank, ...w }
WithBank(bank, w) == [bank |-> bank] @@ w

rankCardsByDaysToPay(today, excludeBanks) ==
  Bind(normalizeToDay(today), LAMBDA t :
  Bind(SelectSeq(CardKeys, LAMBDA bank : bank \notin excludeBanks), LAMBDA kept :
  Bind([i \in 1 .. Len(kept) |->
          Bind(getPaymentWindow(kept[i], t), LAMBDA w :
            IF w = NotConfigured THEN NotConfigured ELSE WithBank(kept[i], w))],
       LAMBDA mapped :
    SortDesc(SelectSeq(mapped, LAMBDA x : x # NotConfigured)))))

(***************************************************************************)
(* Command parsing and the row written to the sheet                        *)
(***************************************************************************)

\* String.prototype.toUpperCase on the bank names a user may type.
toUpperCase(s) ==
  CASE s = "bbva"      -> "BBVA"
    [] s = "Nu"        -> "NU"
    [] s = "rappicard" -> "RAPPICARD"
    [] s = "capital"   -> "CAPITAL"
    [] s = "Prestamo"  -> "PRESTAMO"
    [] s = "amex"      -> "AMEX"
    [] OTHER           -> s

NoParse == [invalid |-> TRUE]

\* parseCompraCommand on the four parts of the message, already split:
\* amount and months are the numbers read from the first two parts.
parseCompraCommand(text) ==
  IF ~(text.amount > 0) THEN NoParse
  ELSE IF text.months <= 0 \/ text.months > 60 THEN NoParse
  ELSE IF text.bank = "" \/ text.description = "" THEN NoParse
  ELSE [amount |-> text.amount, months |-> text.months, bank |-> text.bank,
        description |-> text.description]

\* The values array with the amount and the months in each other's column.
SheetRowMonthsFirst(purchase) ==
  << purchase.description, purchase.user, purchase.date, "ACTIVA", purchase.months,
     "", purchase.amount, purchase.bank, "", "", "" >>

\* The values array of savePurchaseToSheets, columns A to K.
SheetRow(purchase) ==
  << purchase.description, purchase.user, purchase.date, "ACTIVA", purchase.amount,
     "", purchase.months, purchase.bank, "", "", "" >>

(***************************************************************************)
(* State                                                                   *)
(***************************************************************************)

\* Bounds of the model.
MaxPuts  == 2
MaxSaves == 2
MaxTicks == 2

\* The clock advances in steps of three minutes, the length of the TTL: an
\* entry is exactly PENDING_TTL_MS old one step after it was stored, older
\* after two.
TickMs == 3 * 60 * 1000

\* `${chatId}:${userId}`
Keys == {"7:1", "7:2"}

\* The keys whose user talks to the bot in Spec.
ActiveKeys == {"7:1"}

\* The /compra messages users send (amount, months, bank, description) with
\* the sender's first name; the last three do not parse.
Messages ==
  { [amount |-> 9000, months |-> 12, bank |-> "bbva",    description |-> "Pantalla", firstName |-> "Ana"],
    [amount |-> 9000, months |-> 60, bank |-> "capital", description |-> "Pantalla", firstName |-> "Ana"],
    [amount |-> 9000, months |-> 60, bank |-> "Prestamo", description |-> "Pantalla", firstName |-> "Ana"],
    [amount |-> 150,  months |-> 1,  bank |-> "amex",    description |-> "Cafe",     firstName |-> ""],
    [amount |-> 0,    months |-> 12, bank |-> "bbva",    description |-> "Pantalla", firstName |-> "Ana"],
    [amount |-> 9000, months |-> 61, bank |-> "Nu",      description |-> "Pantalla", firstName |-> "Ana"],
    [amount |-> 9000, months |-> 12, bank |-> "bbva",    description |-> "",         firstName |-> "Ana"] }

\* The instants at which the bot may be started: three minutes before
\* midnight of 31 January 2026, and noon of 10 February 2026.
StartInstants ==
  { [day |-> MakeDate(2026, 0, 31).day, ms |-> MsPerDay - TickMs],
    [day |-> MakeDate(2026, 1, 10).day, ms |-> 12 * 60 * 60 * 1000] }

VARIABLES
  pendingPurchases,  \* the Map: key -> {data, createdAt, stage} or NoEntry; id names the
                     \* entry object and warnings counts the warnings shown for it
  wallClock,         \* the wall clock: new Date() and Date.now()
  ticks,             \* clock steps taken since the start
  nextId,            \* identity of the next entry object created by /compra
  saveCalls,         \* the savePurchaseToSheets calls awaiting their answer
  lastStep,          \* the last handler step taken and what it answered
  call               \* the last application of a pure function: arguments and result

vars == <<pendingPurchases, wallClock, ticks, nextId, saveCalls, lastStep, call>>

\* The variables of the bot proper.
botVars == <<pendingPurchases, wallClock, ticks, nextId, saveCalls, lastStep>>

NoEntry == [absent |-> TRUE]

NoWindow == [notComputed |-> TRUE]

NoCall == [fn |-> "none"]

\* Date.now() - createdAt
Elapsed(createdAt) == DateDiffMs(wallClock, createdAt)

\* The expiry test with >= where the code has >.
ExpiredAtTtl(entry) == Elapsed(entry.createdAt) >= PENDING_TTL_MS

\* The expiry test with twice the TTL.
ExpiredLate(entry) == Elapsed(entry.createdAt) > 2 * PENDING_TTL_MS

Expired(entry) == Elapsed(entry.createdAt) > PENDING_TTL_MS

Step(h, key, out, window, alts) ==
  [h |-> h, key |-> key, out |-> out, window |-> window, alts |-> alts]

Init ==
  /\ pendingPurchases = [k \in Keys |-> NoEntry]
  /\ wallClock \in StartInstants
  /\ ticks = 0
  /\ nextId = 1
  /\ saveCalls = EmptyBag
  /\ lastStep = Step("start", "", "", NoWindow, <<>>)
  /\ call = NoCall

(***************************************************************************)
(* Handlers                                                                *)
(***************************************************************************)

\* savePurchaseToSheets(purchase) is called: the row is built and the append
\* request is sent; the handler waits for the answer.
StartSave(key, entry) ==
  /\ BagCardinality(saveCalls) < MaxSaves
  /\ saveCalls' = saveCalls (+)
       SetToBag({ [key |-> key, id |-> entry.id, row |-> SheetRow(entry.data)] })

\* /compra keeping the stage of the entry it replaces.
CompraKeepsStage(key, message) ==
  /\ \E parsed \in {parseCompraCommand(message)} :
    IF parsed = NoParse
    THEN /\ lastStep' = Step("compra", key, "INVALID", NoWindow, <<>>)
         /\ UNCHANGED <<call, pendingPurchases, wallClock, ticks, nextId, saveCalls>>
    ELSE
      /\ nextId <= MaxPuts
      /\ pendingPurchases' =
           [pendingPurchases EXCEPT ![key] =
              [id |-> nextId,
               data |-> [ date        |-> formatDateDMY(wallClock),
                          amount      |-> parsed.amount,
                          months      |-> parsed.months,
                          bank        |-> toUpperCase(parsed.bank),
                          description |-> parsed.description,
                          user        |-> IF message.firstName # "" THEN message.firstName
                                          ELSE "Usuario" ],
               createdAt |-> wallClock,
               stage |-> IF pendingPurchases[key] = NoEntry THEN "PREVIEW"
                         ELSE pendingPurchases[key].stage,
               warnings |-> 0]]
      /\ nextId' = nextId + 1
      /\ lastStep' = Step("compra", key, "PREVIEW", NoWindow, <<>>)
      /\ UNCHANGED <<call, wallClock, ticks, saveCalls>>

\* bot.hears(/compra): parse, store the pending purchase, show the preview.
Compra(key, message) ==
  /\ \E parsed \in {parseCompraCommand(message)} :
    IF parsed = NoParse
    THEN /\ lastStep' = Step("compra", key, "INVALID", NoWindow, <<>>)
         /\ UNCHANGED <<call, pendingPurchases, wallClock, ticks, nextId, saveCalls>>
    ELSE
      \E purchaseData \in
           { [ date        |-> formatDateDMY(wallClock),
               amount      |-> parsed.amount,
               months      |-> parsed.months,
               bank        |-> toUpperCase(parsed.bank),
               description |-> parsed.description,
               user        |-> IF message.firstName # "" THEN message.firstName
                               ELSE "Usuario" ] } :
        /\ nextId <= MaxPuts
        /\ pendingPurchases' =
             [pendingPurchases EXCEPT ![key] =
                [id |-> nextId, data |-> purchaseData, createdAt |-> wallClock,
                 stage |-> "PREVIEW", warnings |-> 0]]
        /\ nextId' = nextId + 1
        /\ lastStep' =
             Step("compra", key, "PREVIEW",
                  IF purchaseData.bank \notin SKIP_CUT_VALIDATION
                  THEN getPaymentWindow(purchaseData.bank, wallClock)
                  ELSE NoWindow,
                  <<>>)
        /\ UNCHANGED <<call, wallClock, ticks, saveCalls>>

\* shouldWarn without the stage !== "WARNED" conjunct.
shouldWarnEveryTime(ranking, chosen, pending) ==
  /\ ranking # <<>>
  /\ ranking[1].daysToPay >= chosen.daysToPay + IMPROVEMENT_THRESHOLD_DAYS

\* shouldWarn without the comparison of days.
shouldWarnAnyAlternative(ranking, chosen, pending) ==
  /\ ranking # <<>>
  /\ pending.stage # "WARNED"

\* shouldWarn with > where the code has >=.
shouldWarnStrict(ranking, chosen, pending) ==
  /\ ranking # <<>>
  /\ ranking[1].daysToPay > chosen.daysToPay + IMPROVEMENT_THRESHOLD_DAYS
  /\ pending.stage # "WARNED"

\* The advisory trigger of confirm_purchase: bestAlt && bestAlt.daysToPay >=
\* chosen.daysToPay + IMPROVEMENT_THRESHOLD_DAYS && pending.stage !== "WARNED".
shouldWarn(ranking, chosen, pending) ==
  /\ ranking # <<>>
  /\ ranking[1].daysToPay >= chosen.daysToPay + IMPROVEMENT_THRESHOLD_DAYS
  /\ pending.stage # "WARNED"

\* ranking.slice(0, 3)
Top3(ranking) == SubSeq(ranking, 1, IF Len(ranking) < 3 THEN Len(ranking) ELSE 3)

\* The same part of confirm_purchase with a warning that restarts the
\* entry's TTL.
ConfirmWithWindowRenews(key, pending, chosen) ==
  IF chosen = NotConfigured
  THEN /\ StartSave(key, pending)
       /\ lastStep' = Step("confirm_purchase", key, "SAVING", chosen, <<>>)
       /\ UNCHANGED <<call, pendingPurchases, wallClock, ticks, nextId>>
  ELSE
    \E ranking \in {rankCardsByDaysToPay(wallClock, {pending.data.bank})} :
      IF shouldWarn(ranking, chosen, pending)
      THEN /\ pendingPurchases' =
                [pendingPurchases EXCEPT ![key].stage = "WARNED",
                                         ![key].warnings = @ + 1,
                                         ![key].createdAt = wallClock]
           /\ lastStep' = Step("confirm_purchase", key, "WARNED", chosen, Top3(ranking))
           /\ UNCHANGED <<call, wallClock, ticks, nextId, saveCalls>>
      ELSE /\ StartSave(key, pending)
           /\ lastStep' = Step("confirm_purchase", key, "SAVING", chosen, <<>>)
           /\ UNCHANGED <<call, pendingPurchases, wallClock, ticks, nextId>>

\* The part of confirm_purchase that follows the lookup of the chosen card's
\* window: save directly when the card has no cycle, else rank and decide.
ConfirmWithWindow(key, pending, chosen) ==
  IF chosen = NotConfigured
  THEN /\ StartSave(key, pending)
       /\ lastStep' = Step("confirm_purchase", key, "SAVING", chosen, <<>>)
       /\ UNCHANGED <<call, pendingPurchases, wallClock, ticks, nextId>>
  ELSE
    \E ranking \in {rankCardsByDaysToPay(wallClock, {pending.data.bank})} :
      IF shouldWarn(ranking, chosen, pending)
      THEN /\ pendingPurchases' = [pendingPurchases EXCEPT ![key].stage = "WARNED", ![key].warnings = @ + 1]
           /\ lastStep' = Step("confirm_purchase", key, "WARNED", chosen, Top3(ranking))
           /\ UNCHANGED <<call, wallClock, ticks, nextId, saveCalls>>
      ELSE /\ StartSave(key, pending)
           /\ lastStep' = Step("confirm_purchase", key, "SAVING", chosen, <<>>)
           /\ UNCHANGED <<call, pendingPurchases, wallClock, ticks, nextId>>

\* confirm_purchase without its SKIP_CUT_VALIDATION branch.
ConfirmPurchaseNoSkip(key) ==
  \E pending \in {pendingPurchases[key]} :
    IF pending = NoEntry
    THEN /\ lastStep' = Step("confirm_purchase", key, "NOTHING_PENDING", NoWindow, <<>>)
         /\ UNCHANGED <<call, pendingPurchases, wallClock, ticks, nextId, saveCalls>>
    ELSE IF Expired(pending)
    THEN /\ pendingPurchases' = [pendingPurchases EXCEPT ![key] = NoEntry]
         /\ lastStep' = Step("confirm_purchase", key, "EXPIRED", NoWindow, <<>>)
         /\ UNCHANGED <<call, wallClock, ticks, nextId, saveCalls>>
    ELSE
      \E chosen \in {getPaymentWindow(pending.data.bank, wallClock)} :
        ConfirmWithWindow(key, pending, chosen)

\* bot.action("confirm_purchase"), up to its first wait on the sheet.
ConfirmPurchase(key) ==
  \E pending \in {pendingPurchases[key]} :
    IF pending = NoEntry
    THEN /\ lastStep' = Step("confirm_purchase", key, "NOTHING_PENDING", NoWindow, <<>>)
         /\ UNCHANGED <<call, pendingPurchases, wallClock, ticks, nextId, saveCalls>>
    ELSE IF Expired(pending)
    THEN /\ pendingPurchases' = [pendingPurchases EXCEPT ![key] = NoEntry]
         /\ lastStep' = Step("confirm_purchase", key, "EXPIRED", NoWindow, <<>>)
         /\ UNCHANGED <<call, wallClock, ticks, nextId, saveCalls>>
    ELSE IF pending.data.bank \in SKIP_CUT_VALIDATION
    THEN /\ StartSave(key, pending)
         /\ lastStep' = Step("confirm_purchase", key, "SAVING", NoWindow, <<>>)
         /\ UNCHANGED <<call, pendingPurchases, wallClock, ticks, nextId>>
    ELSE
      \E chosen \in {getPaymentWindow(pending.data.bank, wallClock)} :
        ConfirmWithWindow(key, pending, chosen)

\* bot.action("confirm_purchase_ok"), up to its wait on the sheet.
ConfirmPurchaseOk(key) ==
  \E pending \in {pendingPurchases[key]} :
    IF pending = NoEntry
    THEN /\ lastStep' = Step("confirm_purchase_ok", key, "NOTHING_PENDING", NoWindow, <<>>)
         /\ UNCHANGED <<call, pendingPurchases, wallClock, ticks, nextId, saveCalls>>
    ELSE IF Expired(pending)
    THEN /\ pendingPurchases' = [pendingPurchases EXCEPT ![key] = NoEntry]
         /\ lastStep' = Step("confirm_purchase_ok", key, "EXPIRED", NoWindow, <<>>)
         /\ UNCHANGED <<call, wallClock, ticks, nextId, saveCalls>>
    ELSE /\ StartSave(key, pending)
         /\ lastStep' = Step("confirm_purchase_ok", key, "SAVING", NoWindow, <<>>)
         /\ UNCHANGED <<call, pendingPurchases, wallClock, ticks, nextId>>

\* The append request answers: the waiting handler (confirm_purchase or
\* confirm_purchase_ok, which continue alike) deletes the key's entry and
\* reports the purchase saved.
SaveResolved(c) ==
  /\ saveCalls' = saveCalls (-) SetToBag({c})
  /\ pendingPurchases' = [pendingPurchases EXCEPT ![c.key] = NoEntry]
  /\ lastStep' = Step("save", c.key, "COMMITTED", NoWindow, <<>>)
  /\ UNCHANGED <<call, wallClock, ticks, nextId>>

\* A catch that also drops the key's entry.
SaveRejectedDropsEntry(c) ==
  /\ saveCalls' = saveCalls (-) SetToBag({c})
  /\ pendingPurchases' = [pendingPurchases EXCEPT ![c.key] = NoEntry]
  /\ lastStep' = Step("save", c.key, "ERROR", NoWindow, <<>>)
  /\ UNCHANGED <<call, wallClock, ticks, nextId>>

\* A catch that puts the key's entry back to the first screen.
SaveRejectedResetsStage(c) ==
  /\ saveCalls' = saveCalls (-) SetToBag({c})
  /\ pendingPurchases' =
       [pendingPurchases EXCEPT ![c.key] =
          IF @ = NoEntry THEN @ ELSE [@ EXCEPT !.stage = "PREVIEW"]]
  /\ lastStep' = Step("save", c.key, "ERROR", NoWindow, <<>>)
  /\ UNCHANGED <<call, wallClock, ticks, nextId>>

\* savePurchaseToSheets throws (no client, or the request fails): the handler's
\* catch reports the error and leaves the Map as it is.
SaveRejected(c) ==
  /\ saveCalls' = saveCalls (-) SetToBag({c})
  /\ lastStep' = Step("save", c.key, "ERROR", NoWindow, <<>>)
  /\ UNCHANGED <<call, pendingPurchases, wallClock, ticks, nextId>>

\* cancel_purchase emptying the whole Map.
CancelPurchaseClearsStore(key) ==
  /\ pendingPurchases' = [k \in Keys |-> NoEntry]
  /\ lastStep' = Step("cancel_purchase", key, "CANCELLED", NoWindow, <<>>)
  /\ UNCHANGED <<call, wallClock, ticks, nextId, saveCalls>>

\* cancel_purchase answering without deleting the key.
CancelPurchaseKeepsEntry(key) ==
  /\ lastStep' = Step("cancel_purchase", key, "CANCELLED", NoWindow, <<>>)
  /\ UNCHANGED <<call, pendingPurchases, wallClock, ticks, nextId, saveCalls>>

\* bot.action("cancel_purchase")
CancelPurchase(key) ==
  /\ pendingPurchases' = [pendingPurchases EXCEPT ![key] = NoEntry]
  /\ lastStep' = Step("cancel_purchase", key, "CANCELLED", NoWindow, <<>>)
  /\ UNCHANGED <<call, wallClock, ticks, nextId, saveCalls>>

\* A sweep that passes over the entries already warned about.
SweepSparesWarned ==
  /\ pendingPurchases' =
       [k \in Keys |->
          IF pendingPurchases[k] # NoEntry /\ Expired(pendingPurchases[k])
             /\ pendingPurchases[k].stage # "WARNED"
          THEN NoEntry ELSE pendingPurchases[k]]
  /\ lastStep' = Step("sweep", "", "", NoWindow, <<>>)
  /\ UNCHANGED <<call, wallClock, ticks, nextId, saveCalls>>

\* The setInterval callback: drop every expired entry.
Sweep ==
  /\ pendingPurchases' =
       [k \in Keys |->
          IF pendingPurchases[k] # NoEntry /\ Expired(pendingPurchases[k])
          THEN NoEntry ELSE pendingPurchases[k]]
  /\ lastStep' = Step("sweep", "", "", NoWindow, <<>>)
  /\ UNCHANGED <<call, wallClock, ticks, nextId, saveCalls>>

\* Time passes.
Tick ==
  /\ ticks < MaxTicks
  /\ ticks' = ticks + 1
  /\ wallClock' =
       IF wallClock.ms + TickMs >= MsPerDay
       THEN [day |-> wallClock.day + 1, ms |-> wallClock.ms + TickMs - MsPerDay]
       ELSE [wallClock EXCEPT !.ms = @ + TickMs]
  /\ UNCHANGED <<call, pendingPurchases, nextId, saveCalls, lastStep>>

Next ==
  \/ \E key \in ActiveKeys, message \in Messages : Compra(key, message)
  \/ \E key \in ActiveKeys : ConfirmPurchase(key)
  \/ \E key \in ActiveKeys : ConfirmPurchaseOk(key)
  \/ \E key \in ActiveKeys : CancelPurchase(key)
  \/ \E c \in BagToSet(saveCalls) : SaveResolved(c)
  \/ \E c \in BagToSet(saveCalls) : SaveRejected(c)
  \/ Sweep
  \/ Tick

Spec == Init /\ [][Next]_vars

(***************************************************************************)
(* index.js: the bot without the confirmation step                         *)
(***************************************************************************)

\* fmt(d): dd/mm/yyyy
fmt(d) == Bind(Civil(d), LAMBDA c : <<c.date, c.month + 1, c.year>>)

\* guardarCompra builds the row A:H with today's date and sends the append
\* request; the /compra handler waits for the answer.
guardarCompra(key, compra) ==
  /\ BagCardinality(saveCalls) < MaxSaves
  /\ saveCalls' = saveCalls (+)
       SetToBag({ [key |-> key, id |-> 0,
                   row |-> << compra.descripcion, compra.titular, fmt(wallClock),
                              "ACTIVA", compra.monto, "", compra.meses,
                              toUpperCase(compra.banco) >>] })

\* bot.command('compra') of index.js: the messages of the model always carry
\* numbers for monto and meses, so of its checks only the one for the
\* description can fail.  The sender's username is not modelled.
CompraIndex(key, message) ==
  IF message.description = ""
  THEN /\ lastStep' = Step("compra", key, "INVALID", NoWindow, <<>>)
       /\ UNCHANGED <<call, pendingPurchases, wallClock, ticks, nextId, saveCalls>>
  ELSE /\ guardarCompra(key,
            [monto |-> message.amount, meses |-> message.months,
             banco |-> toUpperCase(message.bank), descripcion |-> message.description,
             titular |-> IF message.firstName # "" THEN message.firstName
                         ELSE "SIN_NOMBRE"])
       /\ lastStep' = Step("compra", key, "SAVING", NoWindow, <<>>)
       /\ UNCHANGED <<call, pendingPurchases, wallClock, ticks, nextId>>

\* The append request answers and /compra replies "Compra guardada".
IndexSaveResolved(c) ==
  /\ saveCalls' = saveCalls (-) SetToBag({c})
  /\ lastStep' = Step("save", c.key, "COMMITTED", NoWindow, <<>>)
  /\ UNCHANGED <<call, pendingPurchases, wallClock, ticks, nextId>>

\* The append request fails and the catch of /compra reports the error.
IndexSaveRejected(c) ==
  /\ saveCalls' = saveCalls (-) SetToBag({c})
  /\ lastStep' = Step("save", c.key, "ERROR", NoWindow, <<>>)
  /\ UNCHANGED <<call, pendingPurchases, wallClock, ticks, nextId>>

NextIndex ==
  \/ \E key \in ActiveKeys, message \in Messages : CompraIndex(key, message)
  \/ \E c \in BagToSet(saveCalls) : IndexSaveResolved(c)
  \/ \E c \in BagToSet(saveCalls) : IndexSaveRejected(c)
  \/ Tick

SpecIndex == Init /\ [][NextIndex]_vars

(***************************************************************************)
(* The advisory trigger as a function of its inputs                        *)
(***************************************************************************)

MaxDays == 16

\* The rankings handed to the trigger: no alternative, one, or two in
\* descending order of daysToPay, as rankCardsByDaysToPay returns them.
Rankings ==
  {<<>>}
  \cup { <<[bank |-> "RAPPICARD", daysToPay |-> a]>> : a \in 0 .. MaxDays }
  \cup { <<[bank |-> "RAPPICARD", daysToPay |-> a], [bank |-> "HSBC", daysToPay |-> a - b]>> :
           a \in 0 .. MaxDays, b \in 0 .. 1 }

ApplyShouldWarn(ranking, chosen, pending) ==
  /\ call' = [fn |-> "shouldWarn", ranking |-> ranking, chosen |-> chosen,
              pending |-> pending, result |-> shouldWarn(ranking, chosen, pending)]
  /\ UNCHANGED botVars

\* The window of the chosen card, as far as the trigger reads it.
ChosenWindows == { [bank |-> "BBVA", daysToPay |-> days] : days \in 0 .. MaxDays }

\* The pending entry, as far as the trigger reads it.
PendingStages == { [stage |-> stage] : stage \in {"PREVIEW", "WARNED"} }

NextPolicy ==
  \E ranking \in Rankings, chosen \in ChosenWindows, pending \in PendingStages :
    ApplyShouldWarn(ranking, chosen, pending)

SpecPolicy == Init /\ [][NextPolicy]_vars

(***************************************************************************)
(* The payment window as a function of the cycle and the reference date    *)
(***************************************************************************)

\* Reference dates run over the months 0 .. LastMonth of 2027 and of 2028,
\* a common year and a leap year.
LastMonth == 2

RefDays ==
  { MakeDate(y, m, 1).day + d : y \in {2027, 2028}, m \in 0 .. LastMonth, d \in 0 .. 27 }
  \cup { MakeDate(y, m + 1, 1).day - d : y \in {2027, 2028}, m \in 0 .. LastMonth, d \in 1 .. 3 }

\* Every cycle a catalog may hold.
Cycles ==
  { [cutDay |-> c, dueDay |-> d, dueOffset |-> o] : c \in 1 .. 31, d \in 1 .. 31, o \in 0 .. 1 }

\* The state of a run that only applies a function: the bot has just started.
Idle ==
  /\ pendingPurchases = [k \in Keys |-> NoEntry]
  /\ ticks = 0
  /\ nextId = 1
  /\ saveCalls = EmptyBag
  /\ lastStep = Step("start", "", "", NoWindow, <<>>)

InitCycle ==
  /\ Idle
  /\ wallClock \in { [day |-> n, ms |-> 0] : n \in RefDays }
  /\ call \in { [fn |-> "args", cfg |-> cfg] : cfg \in Cycles }

ApplyWindowOf ==
  /\ call.fn = "args"
  /\ call' = [fn |-> "windowOf", cfg |-> call.cfg, today |-> wallClock,
              result |-> windowOf(call.cfg, wallClock)]
  /\ UNCHANGED botVars

NextCycle == ApplyWindowOf

SpecCycle == InitCycle /\ [][NextCycle]_vars

\* The cards asked about: those of the catalog and one it does not hold.
Banks == { CardKeys[i] : i \in DOMAIN CardKeys } \cup {"AMEX"}

\* Times of day of a reference date: midnight, noon, the last millisecond.
TimesOfDay == {0, 12 * 60 * 60 * 1000, MsPerDay - 1}

InitWindow ==
  /\ Idle
  /\ wallClock \in { [day |-> n, ms |-> t] : n \in RefDays, t \in TimesOfDay }
  /\ call \in { [fn |-> "args", bank |-> bank] : bank \in Banks }

ApplyGetPaymentWindow ==
  /\ call.fn = "args"
  /\ call' = [fn |-> "getPaymentWindow", bank |-> call.bank, today |-> wallClock,
              result |-> getPaymentWindow(call.bank, wallClock)]
  /\ UNCHANGED botVars

NextWindow == ApplyGetPaymentWindow

SpecWindow == InitWindow /\ [][NextWindow]_vars

(***************************************************************************)
(* The ranking as a function of the reference date and the exclusions      *)
(***************************************************************************)

InitRank ==
  /\ Idle
  /\ wallClock \in { [day |-> n, ms |-> t] : n \in RefDays, t \in TimesOfDay }
  /\ call \in { [fn |-> "args", excludeBanks |-> ex] : ex \in SUBSET Banks }

ApplyRank ==
  /\ call.fn = "args"
  /\ call' = [fn |-> "rankCardsByDaysToPay", excludeBanks |-> call.excludeBanks,
              today |-> wallClock,
              result |-> rankCardsByDaysToPay(wallClock, call.excludeBanks)]
  /\ UNCHANGED botVars

NextRank == ApplyRank

SpecRank == InitRank /\ [][NextRank]_vars

\* Instants at which the ranking is first asked for: the midnights that
\* open the cut days of RAPPICARD and BANAMEX (6 February 2026) and of BBVA
\* (24 February 2026), and the start instants of the bot.
RankInstants ==
  { MakeDate(2026, 1, 6), MakeDate(2026, 1, 24) } \cup StartInstants

InitRankAgain ==
  /\ Idle
  /\ wallClock \in RankInstants
  /\ call \in { [fn |-> "args", excludeBanks |-> ex] :
                  ex \in { {}, {"BBVA"}, {"RAPPICARD", "AMEX"} } }

\* The ranking is asked for now; the call before it, if any, is remembered.
RankAgain ==
  /\ call' = [fn |-> "rankCardsByDaysToPay", excludeBanks |-> call.excludeBanks,
              today |-> wallClock,
              result |-> rankCardsByDaysToPay(wallClock, call.excludeBanks),
              before |-> IF call.fn = "args" THEN NoCall
                         ELSE [fn |-> call.fn, today |-> call.today,
                               result |-> call.result]]
  /\ UNCHANGED botVars

NextRankAgain ==
  \/ RankAgain
  \/ \E key \in ActiveKeys, message \in Messages : Compra(key, message)
  \/ \E key \in ActiveKeys : CancelPurchase(key)
  \/ Tick

SpecRankAgain == InitRankAgain /\ [][NextRankAgain]_vars

(***************************************************************************)
(* The bot with two users                                                  *)
(***************************************************************************)

\* The message both users send.
StoreMessages ==
  { [amount |-> 9000, months |-> 12, bank |-> "bbva", description |-> "Pantalla",
     firstName |-> "Ana"] }

NextStore ==
  \/ \E key \in Keys, message \in StoreMessages : Compra(key, message)
  \/ \E key \in Keys : ConfirmPurchase(key)
  \/ \E key \in Keys : ConfirmPurchaseOk(key)
  \/ \E key \in Keys : CancelPurchase(key)
  \/ \E c \in BagToSet(saveCalls) : SaveResolved(c)
  \/ \E c \in BagToSet(saveCalls) : SaveRejected(c)
  \/ Sweep
  \/ Tick

SpecStore == Init /\ [][NextStore]_vars

(***************************************************************************)
(* The bot with its timer and the clock running                            *)
(***************************************************************************)

\* The messages sent in SpecLive: one for a card with a cycle, one for an
\* exempt card.
LiveMessages ==
  { [amount |-> 9000, months |-> 12, bank |-> "bbva", description |-> "Pantalla",
     firstName |-> "Ana"],
    [amount |-> 9000, months |-> 60, bank |-> "capital", description |-> "Pantalla",
     firstName |-> "Ana"] }

\* /compra while the clock of the model can still run past the TTL of the
\* entry stored.
CompraInTime(key, message) ==
  /\ (MaxTicks - ticks) * TickMs > PENDING_TTL_MS
  /\ Compra(key, message)

NextLive ==
  \/ \E key \in ActiveKeys, message \in LiveMessages : CompraInTime(key, message)
  \/ \E key \in ActiveKeys : ConfirmPurchase(key)
  \/ \E key \in ActiveKeys : ConfirmPurchaseOk(key)
  \/ \E key \in ActiveKeys : CancelPurchase(key)
  \/ \E c \in BagToSet(saveCalls) : SaveResolved(c)
  \/ \E c \in BagToSet(saveCalls) : SaveRejected(c)
  \/ Sweep
  \/ Tick

\* setInterval keeps firing the sweep and time keeps passing; nothing is
\* assumed of the users or of the sheet.
SpecLive == Init /\ [][NextLive]_vars /\ WF_vars(Sweep) /\ WF_vars(Tick)

(***************************************************************************)
(* The confirmation of a purchase on every reference date                  *)
(***************************************************************************)

\* The state right after /compra was handled at wallClock for a purchase
\* with the given card of the catalog: the entry it stored and the preview
\* it showed.
AfterCompra(key, bank) ==
  /\ pendingPurchases =
       [k \in Keys |->
          IF k = key
          THEN [id |-> 1,
                data |-> [ date        |-> formatDateDMY(wallClock),
                           amount      |-> 9000,
                           months      |-> 12,
                           bank        |-> bank,
                           description |-> "Pantalla",
                           user        |-> "Ana" ],
                createdAt |-> wallClock, stage |-> "PREVIEW", warnings |-> 0]
          ELSE NoEntry]
  /\ nextId = 2
  /\ lastStep = Step("compra", key, "PREVIEW", getPaymentWindow(bank, wallClock), <<>>)

InitAdvice ==
  /\ wallClock \in { [day |-> n, ms |-> t] : n \in RefDays, t \in TimesOfDay }
  /\ \E bank \in DOMAIN CARD_CYCLE : AfterCompra("7:1", bank)
  /\ ticks = 0
  /\ saveCalls = EmptyBag
  /\ call = NoCall

NextAdvice ==
  \/ \E key \in ActiveKeys : ConfirmPurchase(key)
  \/ \E c \in BagToSet(saveCalls) : SaveResolved(c)

SpecAdvice == InitAdvice /\ [][NextAdvice]_vars

(***************************************************************************)
(* Properties                                                              *)
(***************************************************************************)

\* The step taken is one of handler h for key (the clock's own steps leave
\* lastStep as it is and advance ticks).
Handled(h, key) ==
  /\ ticks' = ticks
  /\ lastStep'.h = h
  /\ lastStep'.key = key

\* Some confirm button was handled for key.
HandledConfirm(key) ==
  Handled("confirm_purchase", key) \/ Handled("confirm_purchase_ok", key)

\* The entry is older than the TTL at the present instant.
PastTtl(entry) == DateDiffMs(wallClock, entry.createdAt) > PENDING_TTL_MS

\* The append call the handlers make for an entry stored under key.
AppendFor(key, entry) == [key |-> key, id |-> entry.id, row |-> SheetRow(entry.data)]

\* Some other configured card gives at least five more days to pay than bank.
BetterAlternative(bank, today) ==
  \E b \in DOMAIN CARD_CYCLE \ {bank} :
    getPaymentWindow(b, today).daysToPay >= getPaymentWindow(bank, today).daysToPay + 5

\* C1: /compra never calls the persistence collaborator: every append call
\* is made by a confirm or confirm-anyway step on the call's key, for the
\* entry a previous /compra stored under that key.
C1_AppendOnlyOnConfirm ==
  [][ \A c \in BagToSet(saveCalls') :
        CopiesIn(c, saveCalls') > CopiesIn(c, saveCalls)
        => /\ HandledConfirm(c.key)
           /\ pendingPurchases[c.key] # NoEntry
           /\ c = AppendFor(c.key, pendingPurchases[c.key]) ]_vars

\* C2: however the confirm handlers interleave on one key, no pending entry
\* has two append calls made for it while the first is still in flight.
C2_OneAppendPerEntry ==
  \A c \in BagToSet(saveCalls) :
    /\ CopiesIn(c, saveCalls) <= 1
    /\ \A d \in BagToSet(saveCalls) : d.id = c.id /\ d.key = c.key => d = c

\* C3: a failed persistence call leaves the store as it was: the key's entry
\* keeps its purchase, createdAt and stage, so that a later confirm within
\* the TTL finds it.
C3_FailureKeepsEntry ==
  [][ \A k \in Keys :
        (Handled("save", k) /\ lastStep'.out = "ERROR"
           /\ BagCardinality(saveCalls') < BagCardinality(saveCalls))
        => pendingPurchases' = pendingPurchases ]_vars

\* C3 happens: a persistence call has just failed and the key's live entry,
\* still in the store, has no other call in flight.
C3_Witness ==
  \E k \in Keys :
    /\ lastStep.h = "save" /\ lastStep.key = k /\ lastStep.out = "ERROR"
    /\ pendingPurchases[k] # NoEntry
    /\ ~PastTtl(pendingPurchases[k])
    /\ saveCalls = EmptyBag

\* C4: a confirm or confirm-anyway handled when the key's entry is older
\* than the TTL starts no persistence call and sets no stage: the entry is
\* gone after it, whether or not the sweep ran in between.
C4_ExpiredNeverActedUpon ==
  [][ \A k \in Keys :
        (pendingPurchases[k] # NoEntry /\ PastTtl(pendingPurchases[k]) /\ HandledConfirm(k))
        => /\ saveCalls' = saveCalls
           /\ pendingPurchases'[k] = NoEntry
           /\ lastStep'.out = "EXPIRED" ]_vars

\* C4 happens: a confirm was answered "expired" for an entry the sweep had
\* not removed.
C4_Witness ==
  /\ lastStep.h \in {"confirm_purchase", "confirm_purchase_ok"}
  /\ lastStep.out = "EXPIRED"
  /\ ticks > 0

\* C5: a confirm, confirm-anyway or cancel handled when the key's entry is
\* older than the TTL removes the entry and answers "expired", for cancel too.
C5_ExpiredOutcomeForAll ==
  [][ \A k \in Keys :
        (pendingPurchases[k] # NoEntry /\ PastTtl(pendingPurchases[k])
           /\ (HandledConfirm(k) \/ Handled("cancel_purchase", k)))
        => /\ lastStep'.out = "EXPIRED"
           /\ pendingPurchases'[k] = NoEntry
           /\ saveCalls' = saveCalls ]_vars

\* C6: a confirm, confirm-anyway or cancel for a key without entry is
\* answered "nothing pending", leaves the store unchanged and makes no
\* persistence call.
C6_NothingPendingForAll ==
  [][ \A k \in Keys :
        (pendingPurchases[k] = NoEntry
           /\ (HandledConfirm(k) \/ Handled("cancel_purchase", k)))
        => /\ lastStep'.out = "NOTHING_PENDING"
           /\ pendingPurchases' = pendingPurchases
           /\ saveCalls' = saveCalls ]_vars

\* C7: an entry is warned about at most once, and a confirm or
\* confirm-anyway handled while it is WARNED and within the TTL makes the
\* persistence call for it, whatever the ranking.
C7_WarnOnce ==
  [][ \A k \in Keys :
        /\ pendingPurchases'[k] # NoEntry => pendingPurchases'[k].warnings <= 1
        /\ (pendingPurchases[k] # NoEntry /\ pendingPurchases[k].stage = "WARNED"
              /\ ~PastTtl(pendingPurchases[k]) /\ HandledConfirm(k))
           => /\ lastStep'.out = "SAVING"
              /\ saveCalls' = saveCalls (+) SetToBag({AppendFor(k, pendingPurchases[k])})
              /\ pendingPurchases' = pendingPurchases ]_vars

\* C7 happens: the first confirm button was handled again for a WARNED
\* entry and the persistence call for it is in flight.
C7_Witness ==
  \E k \in Keys :
    /\ lastStep.h = "confirm_purchase" /\ lastStep.key = k /\ lastStep.out = "SAVING"
    /\ pendingPurchases[k] # NoEntry
    /\ pendingPurchases[k].stage = "WARNED"
    /\ BagIn(AppendFor(k, pendingPurchases[k]), saveCalls)

\* C8: a confirm on a live PREVIEW entry of a configured, non-exempt card
\* sets the entry to WARNED, keeps it and makes no persistence call exactly
\* when another configured card gives at least five more days to pay;
\* otherwise it makes the persistence call, whose success removes the entry.
C8_AdvisoryDecision ==
  [][ \A k \in Keys :
        /\ (pendingPurchases[k] # NoEntry /\ pendingPurchases[k].stage = "PREVIEW"
              /\ ~PastTtl(pendingPurchases[k])
              /\ pendingPurchases[k].data.bank \in DOMAIN CARD_CYCLE
              /\ pendingPurchases[k].data.bank \notin SKIP_CUT_VALIDATION
              /\ Handled("confirm_purchase", k))
           => IF BetterAlternative(pendingPurchases[k].data.bank, wallClock)
              THEN /\ lastStep'.out = "WARNED"
                   /\ saveCalls' = saveCalls
                   /\ pendingPurchases' =
                        [pendingPurchases EXCEPT ![k].stage = "WARNED", ![k].warnings = 1]
              ELSE /\ lastStep'.out = "SAVING"
                   /\ saveCalls' = saveCalls (+) SetToBag({AppendFor(k, pendingPurchases[k])})
                   /\ pendingPurchases' = pendingPurchases
        /\ (Handled("save", k) /\ lastStep'.out = "COMMITTED")
           => pendingPurchases'[k] = NoEntry ]_vars

\* C8 happens: the confirm of a PREVIEW entry was answered with the warning.
C8_Witness ==
  \E k \in Keys :
    /\ lastStep.h = "confirm_purchase" /\ lastStep.key = k /\ lastStep.out = "WARNED"
    /\ pendingPurchases[k] # NoEntry
    /\ pendingPurchases[k].stage = "WARNED"
    /\ pendingPurchases[k].data.bank = "BBVA"

\* C9: for an entry not yet warned about, the advisory trigger is true
\* exactly when the ranking is non-empty and its first card gives at least
\* five days more than the chosen one: false at 10 against 14, true at 10
\* against 15 and 16, false on an empty ranking.
C9_PolicyThreshold ==
  (call.fn = "shouldWarn" /\ call.pending.stage = "PREVIEW")
  => /\ call.result <=>
          (call.ranking # <<>>
             /\ call.ranking[1].daysToPay - call.chosen.daysToPay >= 5)
     /\ call.ranking = <<>> => ~call.result
     /\ (call.ranking # <<>> /\ call.chosen.daysToPay = 10)
        => /\ call.ranking[1].daysToPay = 14 => ~call.result
           /\ call.ranking[1].daysToPay \in {15, 16} => call.result

\* C9 happens: the trigger was applied at the edge, 10 days against 15.
C9_Witness ==
  /\ call.fn = "shouldWarn"
  /\ call.pending.stage = "PREVIEW"
  /\ call.ranking # <<>>
  /\ call.ranking[1].daysToPay = 15
  /\ call.chosen.daysToPay = 10
  /\ call.result

\* C10: a confirm on a live entry of an exempt card (CAPITAL, PRESTAMO)
\* makes the persistence call at once, computing no payment window and no
\* ranking, and such an entry is never WARNED.
C10_ExemptSavesDirectly ==
  [][ \A k \in Keys :
        /\ (pendingPurchases'[k] # NoEntry
              /\ pendingPurchases'[k].data.bank \in {"CAPITAL", "PRESTAMO"})
           => pendingPurchases'[k].stage = "PREVIEW" /\ pendingPurchases'[k].warnings = 0
        /\ (pendingPurchases[k] # NoEntry /\ ~PastTtl(pendingPurchases[k])
              /\ pendingPurchases[k].data.bank \in {"CAPITAL", "PRESTAMO"}
              /\ Handled("confirm_purchase", k))
           => /\ lastStep'.out = "SAVING"
              /\ lastStep'.window = NoWindow
              /\ lastStep'.alts = <<>>
              /\ saveCalls' = saveCalls (+) SetToBag({AppendFor(k, pendingPurchases[k])})
              /\ pendingPurchases' = pendingPurchases ]_vars

\* C10 happens: the confirm of a PRESTAMO purchase went straight to the
\* persistence call.
C10_Witness ==
  \E k \in Keys :
    /\ lastStep.h = "confirm_purchase" /\ lastStep.key = k /\ lastStep.out = "SAVING"
    /\ pendingPurchases[k] # NoEntry
    /\ pendingPurchases[k].data.bank = "PRESTAMO"
    /\ BagIn(AppendFor(k, pendingPurchases[k]), saveCalls)

\* C11: the payment window of a card absent from the catalog is
\* NotConfigured, and a confirm on a live entry with such a card makes the
\* persistence call at once; such an entry is never WARNED.
C11_UnconfiguredSavesDirectly ==
  [][ \A k \in Keys :
        /\ (pendingPurchases'[k] # NoEntry
              /\ pendingPurchases'[k].data.bank \notin DOMAIN CARD_CYCLE \cup SKIP_CUT_VALIDATION)
           => /\ pendingPurchases'[k].stage = "PREVIEW"
              /\ pendingPurchases'[k].warnings = 0
              /\ (Handled("compra", k) /\ lastStep'.out = "PREVIEW")
                 => lastStep'.window = NotConfigured
        /\ (pendingPurchases[k] # NoEntry /\ ~PastTtl(pendingPurchases[k])
              /\ pendingPurchases[k].data.bank \notin DOMAIN CARD_CYCLE \cup SKIP_CUT_VALIDATION
              /\ Handled("confirm_purchase", k))
           => /\ lastStep'.out = "SAVING"
              /\ lastStep'.window = NotConfigured
              /\ lastStep'.alts = <<>>
              /\ saveCalls' = saveCalls (+) SetToBag({AppendFor(k, pendingPurchases[k])})
              /\ pendingPurchases' = pendingPurchases ]_vars

\* C11 happens: the confirm of an AMEX purchase, a card without cycle, went
\* straight to the persistence call.
C11_Witness ==
  \E k \in Keys :
    /\ lastStep.h = "confirm_purchase" /\ lastStep.key = k /\ lastStep.out = "SAVING"
    /\ lastStep.window = NotConfigured
    /\ pendingPurchases[k] # NoEntry
    /\ pendingPurchases[k].data.bank = "AMEX"
    /\ BagIn(AppendFor(k, pendingPurchases[k]), saveCalls)

\* C12: for every reference date and every cycle with cutDay and dueDay in
\* 1..31 and dueOffset 0 or 1, the window has its cut date strictly before
\* its due date and daysToPay >= 0.
C12_CutBeforeDue ==
  call.fn = "windowOf"
  => /\ call.result.cutDate.day < call.result.dueDate.day
     /\ call.result.cutDate.ms = 0
     /\ call.result.dueDate.ms = 0
     /\ call.result.daysToPay >= 0

\* C12 happens: the window of a cycle whose due day precedes its cut day in
\* the same month was computed, the case that needs the extra month.
C12_Witness ==
  /\ call.fn = "windowOf"
  /\ call.cfg = [cutDay |-> 31, dueDay |-> 1, dueOffset |-> 0]
  /\ Civil(call.today).month = 0
  /\ Civil(call.result.dueDate).month = 2

\* A window was computed for a card of the catalog.
WindowComputed == call.fn = "getPaymentWindow" /\ call.bank \in DOMAIN CARD_CYCLE

\* C13: when the reference date, at any time of day, falls on the card's
\* cut day, the cut date of the window is that same day.
C13_CutDayIsThisMonth ==
  (WindowComputed /\ Civil(call.today).date = CARD_CYCLE[call.bank].cutDay)
  => call.result.cutDate = [day |-> call.today.day, ms |-> 0]

\* C13 happens: the window was asked for in the last millisecond of a cut
\* day and its cut date is that day.
C13_Witness ==
  /\ WindowComputed
  /\ Civil(call.today).date = CARD_CYCLE[call.bank].cutDay
  /\ call.today.ms = MsPerDay - 1
  /\ call.result.cutDate.day = call.today.day

\* C14: for a reference date after this month's cut day, days 29, 30 and 31
\* included, the cut date is day cutDay of the calendar month that follows
\* the reference date's month.
C14_CutIsNextMonth ==
  (WindowComputed /\ Civil(call.today).date > CARD_CYCLE[call.bank].cutDay)
  => call.result.cutDate =
       MakeDate(Civil(call.today).year, Civil(call.today).month + 1,
                CARD_CYCLE[call.bank].cutDay)

\* The month index of the cut the reference date falls under: this month's
\* when the day is not past cutDay, else the following month's.
CutMonthOf(today, cfg) ==
  IF Civil(today).date <= cfg.cutDay THEN Civil(today).month ELSE Civil(today).month + 1

\* Day dueDay of the month offset months after the cut's month, or of the
\* month after that when that date is not after the cut.
DueDateOf(today, cfg) ==
  LET y   == Civil(today).year
      m   == CutMonthOf(today, cfg) + cfg.dueOffset
      cut == MakeDate(y, CutMonthOf(today, cfg), cfg.cutDay)
  IN  IF MakeDate(y, m, cfg.dueDay).day > cut.day
      THEN MakeDate(y, m, cfg.dueDay)
      ELSE MakeDate(y, m + 1, cfg.dueDay)

\* C15: the due date is day dueDay of the month dueOffset months after the
\* month of the applicable cut (one month more when that is not after the
\* cut) and daysToPay counts the days from the reference date to it; with
\* cut day 6, due day 26 and offset 0, on day 10 the cut is day 6 and the
\* due date day 26 of the following month.
C15_DueDateAndDays ==
  WindowComputed
  => /\ call.result.dueDate = DueDateOf(call.today, CARD_CYCLE[call.bank])
     /\ call.result.daysToPay =
          DueDateOf(call.today, CARD_CYCLE[call.bank]).day - call.today.day
     /\ (call.bank = "RAPPICARD" /\ Civil(call.today).date = 10)
        => /\ call.result.cutDate =
                MakeDate(Civil(call.today).year, Civil(call.today).month + 1, 6)
           /\ call.result.dueDate =
                MakeDate(Civil(call.today).year, Civil(call.today).month + 1, 26)

\* The position of a card in the catalog.
CardIndex(bank) == CHOOSE i \in DOMAIN CardKeys : CardKeys[i] = bank

\* C16: the ranking holds exactly the cards of the catalog that are not
\* excluded, each once and with its own window, in non-increasing order of
\* daysToPay, cards with equal daysToPay in catalog order.
C16_RankingOrder ==
  call.fn = "rankCardsByDaysToPay"
  => /\ { call.result[i].bank : i \in DOMAIN call.result }
          = DOMAIN CARD_CYCLE \ call.excludeBanks
     /\ Len(call.result) = Cardinality(DOMAIN CARD_CYCLE \ call.excludeBanks)
     /\ \A i \in DOMAIN call.result :
          call.result[i]
            = WithBank(call.result[i].bank,
                       getPaymentWindow(call.result[i].bank, call.today))
     /\ \A i, j \in DOMAIN call.result :
          i < j => /\ call.result[i].daysToPay >= call.result[j].daysToPay
                   /\ call.result[i].daysToPay = call.result[j].daysToPay
                      => CardIndex(call.result[i].bank) < CardIndex(call.result[j].bank)

\* C16 happens: with HSBC excluded, RAPPICARD and BANAMEX tie and are
\* ranked next to each other, RAPPICARD first.
C16_Witness ==
  /\ call.fn = "rankCardsByDaysToPay"
  /\ call.excludeBanks = {"HSBC"}
  /\ \E i \in DOMAIN call.result :
       /\ i + 1 \in DOMAIN call.result
       /\ call.result[i].bank = "RAPPICARD"
       /\ call.result[i + 1].bank = "BANAMEX"
       /\ call.result[i].daysToPay = call.result[i + 1].daysToPay

\* C17: two calls of the ranking on the same calendar day with the same
\* exclusions return the same cards in the same order with the same dates
\* and daysToPay, whatever the times of day and whatever happened to the
\* store in between.
C17_RankingIsPure ==
  (call.fn = "rankCardsByDaysToPay" /\ call.before # NoCall
     /\ call.before.today.day = call.today.day)
  => call.result = call.before.result

\* C17 happens: the ranking was asked for twice on one day, at different
\* times, and a purchase is pending.
C17_Witness ==
  /\ call.fn = "rankCardsByDaysToPay"
  /\ call.before # NoCall
  /\ call.before.today.day = call.today.day
  /\ call.before.today.ms # call.today.ms
  /\ \E k \in Keys : pendingPurchases[k] # NoEntry
  /\ call.result = call.before.result

\* C18: a /compra that stores a purchase leaves under its key one entry, a
\* new one, holding the purchase of the message with stage PREVIEW and
\* createdAt = now, whatever entry was there before and whatever its
\* stage; the other keys keep theirs.
C18_PutReplaces ==
  [][ \A k \in Keys :
        (Handled("compra", k) /\ lastStep'.out = "PREVIEW")
        => /\ pendingPurchases'[k] # NoEntry
           /\ pendingPurchases'[k].stage = "PREVIEW"
           /\ pendingPurchases'[k].warnings = 0
           /\ pendingPurchases'[k].createdAt = wallClock
           /\ pendingPurchases'[k].id = nextId
           /\ \E m \in Messages :
                pendingPurchases'[k].data =
                  [ date        |-> formatDateDMY(wallClock),
                    amount      |-> m.amount,
                    months      |-> m.months,
                    bank        |-> toUpperCase(m.bank),
                    description |-> m.description,
                    user        |-> IF m.firstName # "" THEN m.firstName ELSE "Usuario" ]
           /\ \A other \in Keys \ {k} : pendingPurchases'[other] = pendingPurchases[other] ]_vars

\* C18 happens: a second /compra stored its purchase as a PREVIEW entry
\* created now.
C18_Witness ==
  \E k \in Keys :
    /\ lastStep.h = "compra" /\ lastStep.key = k /\ lastStep.out = "PREVIEW"
    /\ pendingPurchases[k] # NoEntry
    /\ pendingPurchases[k].id = 2
    /\ pendingPurchases[k].stage = "PREVIEW"
    /\ pendingPurchases[k].createdAt = wallClock
    /\ ticks > 0

\* C19: a sweep removes every entry older than the TTL and nothing else: an
\* entry whose age is at most the TTL, exactly the TTL included, stays as
\* it is, and no persistence call is made.
C19_SweepBoundary ==
  [][ Handled("sweep", "")
      => /\ \A k \in Keys :
              pendingPurchases'[k] =
                IF pendingPurchases[k] # NoEntry /\ PastTtl(pendingPurchases[k])
                THEN NoEntry
                ELSE pendingPurchases[k]
         /\ saveCalls' = saveCalls ]_vars

\* C19 happens: after a sweep six minutes from the start, one user's entry
\* is exactly as old as the TTL and still stored while the other user's,
\* stored earlier and with its persistence call still in flight, is gone.
C19_Witness ==
  /\ lastStep.h = "sweep"
  /\ ticks = 2
  /\ nextId = 3
  /\ \E c \in BagToSet(saveCalls) : c.key = "7:2" /\ c.id = 1
  /\ pendingPurchases["7:1"] # NoEntry
  /\ pendingPurchases["7:1"].id = 2
  /\ DateDiffMs(wallClock, pendingPurchases["7:1"].createdAt) = PENDING_TTL_MS
  /\ pendingPurchases["7:2"] = NoEntry

\* C20: a cancel for a key with a live entry, PREVIEW or WARNED, removes
\* the entry, answers "cancelled" and makes no persistence call; a confirm
\* for a key left without entry is answered "nothing pending".
C20_CancelRemoves ==
  [][ \A k \in Keys :
        /\ (pendingPurchases[k] # NoEntry /\ ~PastTtl(pendingPurchases[k])
              /\ pendingPurchases[k].stage \in {"PREVIEW", "WARNED"}
              /\ Handled("cancel_purchase", k))
           => /\ lastStep'.out = "CANCELLED"
              /\ pendingPurchases' = [pendingPurchases EXCEPT ![k] = NoEntry]
              /\ saveCalls' = saveCalls
        /\ (pendingPurchases[k] = NoEntry /\ HandledConfirm(k))
           => /\ lastStep'.out = "NOTHING_PENDING"
              /\ pendingPurchases' = pendingPurchases
              /\ saveCalls' = saveCalls ]_vars

\* C20 happens: the only purchase stored so far was cancelled within its
\* TTL (its persistence calls, all still in flight, show that no save had
\* removed it) and its key has no entry.
C20_Witness ==
  \E k \in Keys :
    /\ lastStep.h = "cancel_purchase" /\ lastStep.key = k /\ lastStep.out = "CANCELLED"
    /\ pendingPurchases[k] = NoEntry
    /\ nextId = 2
    /\ ticks = 0
    /\ BagCardinality(saveCalls) = MaxSaves
    /\ \A c \in BagToSet(saveCalls) : c.key = k /\ c.id = 1

\* The step taken started a persistence call: c has one more copy in flight.
Started(c) == CopiesIn(c, saveCalls') > CopiesIn(c, saveCalls)

\* The step taken ended a persistence call: c has one copy less in flight.
Ended(c) == CopiesIn(c, saveCalls') < CopiesIn(c, saveCalls)

\* Every persistence call is started by a confirm or confirm-anyway step
\* that answers with the save; the put, the warning, cancel, expiry and the
\* sweep start none.
AppendOnlyWhenSaving ==
  /\ \A c \in BagToSet(saveCalls') :
       Started(c) => (HandledConfirm(c.key) /\ lastStep'.out = "SAVING")
  /\ (\/ lastStep'.h \in {"compra", "cancel_purchase", "sweep"}
      \/ lastStep'.out \in {"WARNED", "EXPIRED", "NOTHING_PENDING"})
     => \A c \in BagToSet(saveCalls') : ~Started(c)

\* C21: the persistence collaborator is called only by the confirm that
\* commits, never by the put, the warning, cancel, expiry or the sweep, and
\* once per committed entry: when an entry's call succeeds no other call
\* for the same entry exists.
C21_AppendOnceOnCommit ==
  [][ /\ AppendOnlyWhenSaving
      /\ \A c \in BagToSet(saveCalls) :
           (Ended(c) /\ lastStep'.out = "COMMITTED")
           => \A d \in BagToSet(saveCalls') : ~(d.key = c.key /\ d.id = c.id) ]_vars

\* The handlers a user's message or button, or the answer to the user's
\* append call, runs.
UserHandlers ==
  {"compra", "confirm_purchase", "confirm_purchase_ok", "cancel_purchase", "save"}

\* The append calls in flight for key.
CallsOf(key, calls) == { c \in BagToSet(calls) : c.key = key }

\* What handler h answers for a key whose entry is entry, at the present
\* instant: a function of that entry and the clock alone.
OutcomeOn(h, entry) ==
  IF h = "cancel_purchase" THEN "CANCELLED"
  ELSE IF entry = NoEntry THEN "NOTHING_PENDING"
  ELSE IF PastTtl(entry) THEN "EXPIRED"
  ELSE IF h = "confirm_purchase_ok" THEN "SAVING"
  ELSE IF /\ entry.stage = "PREVIEW"
          /\ entry.data.bank \in DOMAIN CARD_CYCLE
          /\ entry.data.bank \notin SKIP_CUT_VALIDATION
          /\ BetterAlternative(entry.data.bank, wallClock)
       THEN "WARNED"
       ELSE "SAVING"

\* C22: keys are independent: a step handled for key a leaves the entry of
\* every other key b, and b's calls in flight, as they were, and what a
\* button handled for b answers depends on b's own entry only, whatever
\* the other keys hold.
C22_KeysIndependent ==
  [][ \A a \in Keys :
        /\ (\E h \in UserHandlers : Handled(h, a))
           => \A b \in Keys \ {a} :
                /\ pendingPurchases'[b] = pendingPurchases[b]
                /\ CallsOf(b, saveCalls') = CallsOf(b, saveCalls)
        /\ \A h \in {"confirm_purchase", "confirm_purchase_ok", "cancel_purchase"} :
             Handled(h, a) => lastStep'.out = OutcomeOn(h, pendingPurchases[a]) ]_vars

\* C22 happens: one user's cancel was handled while the other user's entry,
\* already warned about, was live; that entry is still there.
C22_Witness ==
  /\ lastStep.h = "cancel_purchase" /\ lastStep.key = "7:1"
  /\ pendingPurchases["7:1"] = NoEntry
  /\ pendingPurchases["7:2"] # NoEntry
  /\ pendingPurchases["7:2"].stage = "WARNED"
  /\ pendingPurchases["7:2"].id = 1
  /\ nextId = 3

\* The purchase a /compra message m stores when it is handled at instant now.
PurchaseOf(m, now) ==
  [ date        |-> formatDateDMY(now),
    amount      |-> m.amount,
    months      |-> m.months,
    bank        |-> toUpperCase(m.bank),
    description |-> m.description,
    user        |-> IF m.firstName # "" THEN m.firstName ELSE "Usuario" ]

\* C23: the row of every persistence call holds, in the columns description,
\* user, date, "ACTIVA", amount, months, card (the formula columns between
\* them left blank), the purchase that the key's latest /compra stored: the
\* fields of a valid message with the bank in upper case and the date of the
\* put; and no step changes the purchase or createdAt of an entry it keeps.
C23_RowIsStoredPurchase ==
  [][ /\ \A c \in BagToSet(saveCalls') :
           Started(c) =>
             /\ pendingPurchases[c.key] # NoEntry
             /\ pendingPurchases[c.key].id = c.id
             /\ \E p \in {pendingPurchases[c.key].data} :
                  /\ c.row = << p.description, p.user, p.date, "ACTIVA", p.amount,
                                "", p.months, p.bank, "", "", "" >>
                  /\ \E m \in Messages :
                       /\ parseCompraCommand(m) # NoParse
                       /\ p = PurchaseOf(m, pendingPurchases[c.key].createdAt)
      /\ \A k \in Keys :
           (pendingPurchases[k] # NoEntry /\ pendingPurchases'[k] # NoEntry
              /\ pendingPurchases'[k].id = pendingPurchases[k].id)
           => /\ pendingPurchases'[k].data = pendingPurchases[k].data
              /\ pendingPurchases'[k].createdAt = pendingPurchases[k].createdAt ]_vars

\* C23 happens: the call for a purchase typed with the bank in lower case
\* and stored before midnight was started after midnight.
C23_Witness ==
  \E k \in Keys :
    /\ lastStep.key = k /\ lastStep.out = "SAVING"
    /\ pendingPurchases[k] # NoEntry
    /\ pendingPurchases[k].data.bank = "BBVA"
    /\ pendingPurchases[k].createdAt.day < wallClock.day
    /\ BagIn(AppendFor(k, pendingPurchases[k]), saveCalls)

\* The entry stored under key has a persistence call in flight.
Committing(key) ==
  /\ pendingPurchases[key] # NoEntry
  /\ BagIn(AppendFor(key, pendingPurchases[key]), saveCalls)

\* C24: the sweep never removes an entry whose persistence call is in
\* flight: a sweep step leaves every such entry in the store.
C24_SweepSparesCommitting ==
  [][ Handled("sweep", "")
      => \A k \in Keys : Committing(k) => pendingPurchases'[k] = pendingPurchases[k] ]_vars

\* C25: the entry is taken out of the store before its persistence call
\* starts: while a call is in flight the store does not hold the entry the
\* call was made for.
C25_RemovedBeforeCall ==
  \A c \in BagToSet(saveCalls) :
    ~(pendingPurchases[c.key] # NoEntry /\ pendingPurchases[c.key].id = c.id)

\* C26: the confirm-anyway button commits WARNED entries only: handled for a
\* key whose live entry is in stage PREVIEW it starts no persistence call.
C26_ConfirmAnywayNeedsWarned ==
  [][ \A k \in Keys :
        (pendingPurchases[k] # NoEntry /\ ~PastTtl(pendingPurchases[k])
           /\ pendingPurchases[k].stage = "PREVIEW"
           /\ Handled("confirm_purchase_ok", k))
        => saveCalls' = saveCalls ]_vars

\* C27: an entry begins in PREVIEW, and its stage changes only to WARNED,
\* only in a confirm step that shows the warning because another card gives
\* at least five more days; no step moves an entry it keeps from WARNED to
\* PREVIEW, and none changes its purchase.
C27_StageOnlyForward ==
  [][ \A k \in Keys :
        pendingPurchases'[k] # NoEntry =>
          IF pendingPurchases[k] # NoEntry
             /\ pendingPurchases'[k].id = pendingPurchases[k].id
          THEN /\ pendingPurchases'[k].data = pendingPurchases[k].data
               /\ pendingPurchases[k].stage = "WARNED"
                  => pendingPurchases'[k].stage = "WARNED"
               /\ pendingPurchases'[k].stage # pendingPurchases[k].stage
                  => /\ pendingPurchases[k].stage = "PREVIEW"
                     /\ pendingPurchases'[k].stage = "WARNED"
                     /\ Handled("confirm_purchase", k)
                     /\ lastStep'.out = "WARNED"
                     /\ BetterAlternative(pendingPurchases[k].data.bank, wallClock)
          ELSE /\ pendingPurchases'[k].stage = "PREVIEW"
               /\ Handled("compra", k) ]_vars

\* C27 happens: the persistence call of a WARNED entry failed and the entry
\* is still in the store, still WARNED, with the purchase it was put with.
C27_Witness ==
  \E k \in Keys :
    /\ lastStep.h = "save" /\ lastStep.key = k /\ lastStep.out = "ERROR"
    /\ pendingPurchases[k] # NoEntry
    /\ pendingPurchases[k].stage = "WARNED"
    /\ pendingPurchases[k].warnings = 1
    /\ saveCalls = EmptyBag

\* The entry with identity id is in the store under key.
Holds(key, id) == pendingPurchases[key] # NoEntry /\ pendingPurchases[key].id = id

\* C28: with the sweep firing and time passing, every entry a /compra stored
\* is eventually out of the store, whatever the users do and also when every
\* persistence call made for it fails.
C28_EveryEntryLeaves ==
  \A k \in Keys : \A id \in 1..MaxPuts : Holds(k, id) ~> ~Holds(k, id)

\* C28 happens: one entry was stored, the clock ran past its TTL, the sweep
\* fired, and the store is empty with no persistence call left in flight.
C28_Witness ==
  /\ lastStep.h = "sweep"
  /\ nextId = 2
  /\ ticks = MaxTicks
  /\ saveCalls = EmptyBag
  /\ \A k \in Keys : pendingPurchases[k] = NoEntry

\* C29: the delete that ends a successful commit removes the committed
\* entry only: an entry stored under the same key by a /compra handled
\* while the call was in flight is still there, in stage PREVIEW or as it
\* was, when the commit has been reported.
C29_CommitRemovesOwnEntry ==
  [][ \A c \in BagToSet(saveCalls) :
        (Ended(c) /\ lastStep'.out = "COMMITTED"
           /\ pendingPurchases[c.key] # NoEntry
           /\ pendingPurchases[c.key].id # c.id)
        => pendingPurchases'[c.key] = pendingPurchases[c.key] ]_vars

\* A persistence call for the entry with identity id under key is in flight.
InFlight(key, id, calls) == \E c \in BagToSet(calls) : c.key = key /\ c.id = id

\* C30: an entry has one terminal outcome: when a cancel reports it
\* cancelled, or the sweep removes it as expired, no persistence call for
\* that entry is left in flight to be reported as committed.
C30_OneTerminalOutcome ==
  [][ \A k \in Keys :
        (pendingPurchases[k] # NoEntry /\ pendingPurchases'[k] = NoEntry
           /\ (Handled("cancel_purchase", k) \/ Handled("sweep", "")))
        => ~InFlight(k, pendingPurchases[k].id, saveCalls') ]_vars

\* C31: the warning changes the entry's stage only: createdAt and the
\* purchase stay as the put stored them, so a confirm-anyway handled more
\* than the TTL after the put finds the warned entry expired, removes it and
\* starts no persistence call, however recent the warning.
C31_WarningKeepsCreatedAt ==
  [][ \A k \in Keys :
        /\ (Handled("confirm_purchase", k) /\ lastStep'.out = "WARNED")
           => /\ pendingPurchases[k] # NoEntry
              /\ pendingPurchases'[k] # NoEntry
              /\ pendingPurchases'[k].id = pendingPurchases[k].id
              /\ pendingPurchases'[k].createdAt = pendingPurchases[k].createdAt
              /\ pendingPurchases'[k].data = pendingPurchases[k].data
              /\ pendingPurchases'[k].stage = "WARNED"
        /\ (pendingPurchases[k] # NoEntry /\ pendingPurchases[k].stage = "WARNED"
              /\ PastTtl(pendingPurchases[k])
              /\ Handled("confirm_purchase_ok", k))
           => /\ lastStep'.out = "EXPIRED"
              /\ pendingPurchases'[k] = NoEntry
              /\ saveCalls' = saveCalls ]_vars

\* C31 happens: an entry was warned about and, the warning still being the
\* last answer given, the clock has run past the TTL counted from its put.
C31_Witness ==
  \E k \in Keys :
    /\ lastStep.h = "confirm_purchase" /\ lastStep.key = k /\ lastStep.out = "WARNED"
    /\ pendingPurchases[k] # NoEntry
    /\ pendingPurchases[k].stage = "WARNED"
    /\ PastTtl(pendingPurchases[k])
    /\ pendingPurchases[k].warnings = 1

\* C32: every alternative listed in a warning gives strictly more days to
\* pay than the chosen card, on every reference date and for every card of
\* the catalog.
C32_AlternativesAreBetter ==
  (lastStep.h = "confirm_purchase" /\ lastStep.out = "WARNED")
  => \A i \in DOMAIN lastStep.alts :
       lastStep.alts[i].daysToPay > lastStep.window.daysToPay

\* C33: for every card of the catalog and every reference date the cut
\* date is not before the reference day and falls on day cutDay of its
\* month, the due date falls on day dueDay of its month, and daysToPay is
\* the positive number of days from the reference day to the due date: the
\* clamp to 0 does not apply.
C33_CatalogDatesKeepTheirDay ==
  WindowComputed
  => /\ call.result # NotConfigured
     /\ DateLeq(normalizeToDay(call.today), call.result.cutDate)
     /\ Civil(call.result.cutDate).date = CARD_CYCLE[call.bank].cutDay
     /\ Civil(call.result.dueDate).date = CARD_CYCLE[call.bank].dueDay
     /\ call.result.daysToPay > 0
     /\ call.result.daysToPay = call.result.dueDate.day - call.today.day

\* C33 happens: the window of BBVA (cut on the 24th, due on the 13th of the
\* month after) was computed on a 31st, late in the day.
C33_Witness ==
  /\ WindowComputed
  /\ call.bank = "BBVA"
  /\ Civil(call.today).date = 31
  /\ call.today.ms = MsPerDay - 1
  /\ Civil(call.result.cutDate).date = 24
  /\ Civil(call.result.dueDate).date = 13

====
